---- MODULE Spec2Model ----
(***************************************************************************)
(* Model of the Schedule A incremental ingestor                            *)
(* (src/src/openfec_schedule_a_raw.py): the watermark store                *)
(* (get_last_watermark, log_run), the keyset batch accumulator             *)
(* (fetch_schedule_a_keyset), the raw writer (insert_raw_schedule_a), the  *)
(* watermark computation (compute_new_watermark) and the orchestrator      *)
(* (__main__), run repeatedly against a warehouse and a remote API; and   *)
(* of the page-numbered ingestors (src/src/openfc_candidates_raw.py,       *)
(* src/src/openfec_committees_raw.py).                                     *)
(*                                                                         *)
(* Time is counted in ticks, TicksPerDay ticks to a calendar day, counted  *)
(* from 1900-01-01T00:00:00 (tick 0).                                      *)
(***************************************************************************)
EXTENDS Integers, Sequences, FiniteSets, TLC

(* ----------------------------- bounds ---------------------------------- *)
TicksPerDay == 2        \* resolution of a timestamp inside one day
MaxRuns == 3            \* executions of __main__ in one behaviour
MaxBatches == 2         \* largest max_batches argument of a run
MaxCommitEvery == 2     \* largest commit_every argument of a run
FetchBatches == 4       \* largest max_batches of a single fetch call
InsertRows == 5         \* most records of a single insert call
InsertCommitEvery == 3  \* largest commit_every of a single insert call

(* ------------------------ program constants ---------------------------- *)
Sentinel == 0           \* '1900-01-01'::TIMESTAMP_NTZ
LookbackDays == 30      \* timedelta(days=30)
NotesLimit == 500       \* str(e)[:500]
SOURCE == "openfec"
ENDPOINT == "/schedules/schedule_a/"
SuccessNote == [msg |-> "Schedule A keyset load (max_batches=5)", len |-> 38]

(* ------------------------------ time ----------------------------------- *)
\* datetime.strftime("%Y-%m-%d"): the calendar day of a timestamp; the time
\* of day is dropped.
Strftime(t) == t \div TicksPerDay

\* The first instant of a calendar day, as the API reads a date string.
DayStart(d) == d * TicksPerDay

At(day, tick) == day * TicksPerDay + tick

Max(S) == CHOOSE x \in S : \A y \in S : y <= x
MinOf(a, b) == IF a <= b THEN a ELSE b

VARIABLES
  ingestor,       \* the script that runs: "schedule_a", "candidates" or
                  \* "committees"
  api_key,        \* OPENFEC_API_KEY is set in the environment of this run
  autocommit,     \* AUTOCOMMIT parameter of the warehouse sessions
  remote,         \* "dataset": the API over Upstream; "scripted": the
                  \* fetcher answers from script; "synthetic": any response
  script,         \* responses of the scripted fetcher, by request number
  max_batches,    \* argument of fetch_schedule_a_keyset
  commit_every,   \* argument of insert_raw_schedule_a
  now,            \* wall clock at the start of the run
  runs,           \* executions started so far
  pc,             \* orchestrator state
  ingest_runs,    \* CONTROL.ingest_runs, in append order
  raw,            \* RAW.raw_schedule_a: durable rows, in insertion order
  pending,        \* rows executed in the open transaction, not yet durable
  commits,        \* rows covered by each conn.commit() of the current insert
  resolved,       \* value returned by get_last_watermark in this run
  watermark,      \* __main__'s watermark (after the first-run fallback)
  params,         \* request parameters of fetch_schedule_a_keyset
  requests,       \* parameter sets of the requests issued in this run
  responses,      \* responses received in this run
  rows,           \* records accumulated by fetch_schedule_a_keyset
  inserted,       \* insert_raw_schedule_a's counter / __main__'s inserted
  new_watermark,  \* value of compute_new_watermark
  err,            \* exception caught by __main__'s except clause
  raised,         \* exception that left __main__
  raw_start,      \* number of durable raw rows when the run started
  ingest_start,   \* number of ingest_runs rows when the run started
  log_calls,      \* calls of log_run in this run: status, and whether the
                  \* statement returned (TRUE) or an error left it (FALSE)
  open_conns,     \* warehouse connections of this process that are open
  opened          \* warehouse connections this run has opened so far

vars == <<ingestor, api_key, autocommit, remote, script, max_batches, commit_every, now, runs, pc,
          ingest_runs, raw, pending, commits, resolved, watermark, params,
          requests, responses, rows, inserted, new_watermark, err, raised,
          raw_start, ingest_start, log_calls, open_conns, opened>>

env == <<ingestor, api_key, autocommit, remote, script, max_batches, commit_every>>
fetchvars == <<params, requests, responses, rows>>
dbvars == <<ingest_runs, raw, pending, commits>>
hist == <<raw_start, ingest_start, log_calls>>
conns == <<open_conns, opened>>

\* Exceptions: the type, the orchestrator state that raised it, and the
\* length of str(e).
NoErr == [type |-> "none", at |-> "none", len |-> 0]
ConfigError == [type |-> "RuntimeError", at |-> "START", len |-> 31]
ResolveError ==
  [type |-> "DatabaseError", at |-> "RESOLVING_WATERMARK", len |-> 60]
HTTPError == [type |-> "HTTPError", at |-> "FETCHING", len |-> NotesLimit + 1]
Timeout == [type |-> "Timeout", at |-> "FETCHING", len |-> NotesLimit]
DatabaseError ==
  [type |-> "DatabaseError", at |-> "WRITING", len |-> NotesLimit + 100]
AttributeError ==
  [type |-> "AttributeError", at |-> "COMPUTING_WATERMARK", len |-> 44]
PagingError == [type |-> "HTTPError", at |-> "PAGING", len |-> NotesLimit + 1]
InsertRawError ==
  [type |-> "DatabaseError", at |-> "INSERTING", len |-> NotesLimit + 100]
LogError(state) == [type |-> "DatabaseError", at |-> state, len |-> 60]

\* except Exception as e: the exceptions the clause catches
Caught_http(e) == e.type \in {"HTTPError", "Timeout"}

\* except DatabaseError as e
Caught_db(e) == e.type = "DatabaseError"

Caught(e) == TRUE

\* An exception raised inside the try block: caught by the except clause,
\* or leaving __main__ at once.
Raise(e) ==
  IF Caught(e)
  THEN pc' = "LOGGING_FAILURE" /\ err' = e /\ raised' = raised
  ELSE pc' = "RAISED" /\ err' = err /\ raised' = e

(* ----------------------------- records --------------------------------- *)
Iso(t) == [k |-> "iso", t |-> t]         \* "YYYY-MM-DDTHH:MM:SS"
BadDate == [k |-> "bad", t |-> 0]        \* a string fromisoformat rejects
NoDate == [k |-> "none", t |-> 0]        \* key absent, null or ""

Rec(id, receipt, ld) ==
  [id |-> id, obj |-> TRUE, receipt |-> receipt, load_date |-> ld]

\* A results element that is not a JSON object (null).
NullRec == [id |-> 0, obj |-> FALSE, receipt |-> 0, load_date |-> NoDate]

\* First day of the data, chosen so that the first-run lookback window
\* starts inside it.
BaseDay == LookbackDays - 20
NowInit == At(BaseDay + LookbackDays, 1)

\* The remote data set: contribution_receipt_date order differs from
\* load_date order.
Upstream ==
  { Rec(1, 1, Iso(At(BaseDay + 1, 0))),
    Rec(2, 2, Iso(At(BaseDay, 1))),
    Rec(3, 3, Iso(At(BaseDay + 1, 1))),
    Rec(4, 4, Iso(At(BaseDay, 0))) }

\* conn = sf_conn(): one more open connection
Connect(n) == n + 1

\* A finally clause that closes the cursor only
Finally_cursoronly(n) == n

\* finally: cur.close(); conn.close() -- the clause that ends
\* get_last_watermark, log_run and insert_raw_schedule_a alike
Finally(n) == n - 1

\* An operation that connects, works inside try and leaves through finally,
\* whether it returns or raises.
Scoped(n) == Finally(Connect(n))

(* --------------------------- watermark store --------------------------- *)
\* Without the status = 'SUCCESS' condition
get_last_watermark_nofilter(tbl) ==
  LET sel == { tbl[i].last_indexed_date : i \in
                 { j \in 1..Len(tbl) : /\ tbl[j].source = SOURCE
                                       /\ tbl[j].endpoint = ENDPOINT } }
  IN  IF sel = {} THEN Sentinel ELSE Max(sel)

\* MIN in place of MAX
get_last_watermark_min(tbl) ==
  LET sel == { tbl[i].last_indexed_date : i \in
                 { j \in 1..Len(tbl) : /\ tbl[j].source = SOURCE
                                       /\ tbl[j].endpoint = ENDPOINT
                                       /\ tbl[j].status = "SUCCESS" } }
  IN  IF sel = {} THEN Sentinel
      ELSE CHOOSE x \in sel : \A y \in sel : x <= y

\* SELECT COALESCE(MAX(last_indexed_date), '1900-01-01') FROM ingest_runs
\* WHERE source = %s AND endpoint = %s AND status = 'SUCCESS'
get_last_watermark(tbl) ==
  LET sel == { tbl[i].last_indexed_date : i \in
                 { j \in 1..Len(tbl) : /\ tbl[j].source = SOURCE
                                       /\ tbl[j].endpoint = ENDPOINT
                                       /\ tbl[j].status = "SUCCESS" } }
  IN  IF sel = {} THEN Sentinel ELSE Max(sel)

\* INSERT INTO CONTROL.ingest_runs (...) VALUES (...); the row log_run builds.
log_run(status, wm, rows_loaded, notes) ==
  [source |-> SOURCE, endpoint |-> ENDPOINT, last_indexed_date |-> wm,
   last_run_ts |-> now, status |-> status, rows_loaded |-> rows_loaded,
   notes |-> notes]

\* str(e)[:500]
Truncate(e) == [msg |-> e.type, len |-> MinOf(e.len, NotesLimit)]

(* ------------------------------ remote --------------------------------- *)
per_page == 1           \* per_page argument of fetch_schedule_a_keyset

NoIndexes == << >>      \* last_indexes absent, null or {}

HasCursor(p) == "last_index" \in DOMAIN p

\* contribution_receipt_date ascending, ties broken by the record index.
Before(a, b) ==
  \/ a.receipt < b.receipt
  \/ a.receipt = b.receipt /\ a.id < b.id

\* The records of the data set a request selects: min_load_date is a date,
\* read as the first instant of that day; the keyset fields select the
\* records after the last one of the previous page.
Matching(p) ==
  { r \in Upstream :
      /\ r.load_date.k = "iso"
      /\ r.load_date.t >= DayStart(p.min_load_date)
      /\ HasCursor(p) =>
           \/ p.last_contribution_receipt_date < r.receipt
           \/ /\ p.last_contribution_receipt_date = r.receipt
              /\ p.last_index < r.id }

RECURSIVE SortedSeq(_)
SortedSeq(S) ==
  IF S = {} THEN << >>
  ELSE LET first == CHOOSE r \in S : \A o \in S \ {r} : Before(r, o)
       IN  <<first>> \o SortedSeq(S \ {first})

Take(seq, n) == SubSeq(seq, 1, MinOf(n, Len(seq)))

\* The API's answer over the data set: one page in sort order, with the
\* keyset of its last record.
DatasetResponse(p) ==
  LET page == Take(SortedSeq(Matching(p)), p.per_page)
  IN  [results |-> page,
       has_pagination |-> TRUE,
       last_indexes |->
         IF page = << >> THEN NoIndexes
         ELSE [last_index |-> page[Len(page)].id,
               last_contribution_receipt_date |-> page[Len(page)].receipt]]

Cursor(k) ==
  [has_pagination |-> TRUE,
   last_indexes |-> [last_index |-> k, last_contribution_receipt_date |-> k]]

Page(results, c) ==
  [results |-> results, has_pagination |-> c.has_pagination,
   last_indexes |-> c.last_indexes]

\* Pages and cursors of a synthetic fetcher.
SynthPages ==
  { << >>,
    << Rec(5, 5, Iso(At(BaseDay + 2, 0))) >>,
    << Rec(6, 6, BadDate), Rec(7, 7, NoDate) >>,
    << NullRec >> }

SynthCursors ==
  { [has_pagination |-> FALSE, last_indexes |-> NoIndexes],
    [has_pagination |-> TRUE, last_indexes |-> NoIndexes],
    Cursor(7),
    [has_pagination |-> TRUE, last_indexes |-> [last_index |-> 9]] }

SynthResponses == { Page(pg, c) : pg \in SynthPages, c \in SynthCursors }

\* Scripted fetchers: the k-th request of a run is answered by the k-th
\* response of the script (the last one from then on).
Scripts ==
  { << Page(<< >>, Cursor(1)) >>,
    << Page(<< Rec(7, 7, NoDate) >>, Cursor(7)) >>,
    << Page(<< Rec(6, 6, BadDate), Rec(7, 7, NoDate) >>, Cursor(7)),
       Page(<< NullRec >>, Cursor(8)) >>,
    << Page(<< Rec(5, 5, Iso(At(BaseDay, 0))) >>, Cursor(5)),
       Page(<< Rec(8, 8, Iso(At(BaseDay + 2, 0))) >>, Cursor(8)) >> }

Responses(p) ==
  CASE remote = "dataset" -> { DatasetResponse(p) }
    [] remote = "scripted" ->
         { script[MinOf(Len(requests) + 1, Len(script))] }
    [] OTHER -> SynthResponses

(* ------------------------ fetch_schedule_a_keyset ---------------------- *)
YearOf(t) == Strftime(t) \div 365

\* params = {"per_page": ..., "sort": ..., "min_load_date": ..., ...}
StartParams(min_load_date) ==
  [per_page |-> per_page,
   sort |-> "contribution_receipt_date",
   min_load_date |-> Strftime(min_load_date),
   two_year_transaction_period |-> YearOf(now)]

\* (data.get("pagination") or {}).get("last_indexes") or {}
LastIndexes(resp) ==
  IF resp.has_pagination THEN resp.last_indexes ELSE NoIndexes

\* params = {**last_indexes, **params}: a key already present wins
Update_keep(p, last_indexes) == p @@ last_indexes

\* params.update(last_indexes)
Update(p, last_indexes) == last_indexes @@ p

\* rows = results: the page replaces what was accumulated
Extend_replace(rs, results) == results

\* rows.extend(results)
Extend(rs, results) == rs \o results

\* Without the break on an empty cursor
FetchDone_nocursor(resp, issued) ==
  \/ resp.results = << >>
  \/ issued = max_batches

\* range(1, max_batches) in place of range(1, max_batches + 1)
FetchDone_offbyone(resp, issued) ==
  \/ resp.results = << >>
  \/ DOMAIN LastIndexes(resp) = {}
  \/ issued = max_batches - 1

\* The loop stops at an empty results list, at an empty cursor, or when
\* range(1, max_batches + 1) is exhausted.
FetchDone(resp, issued) ==
  \/ resp.results = << >>
  \/ DOMAIN LastIndexes(resp) = {}
  \/ issued = max_batches

\* One iteration of the loop whose request returns 200.
FetchPage ==
  /\ pc = "FETCHING"
  /\ Len(requests) < max_batches
  /\ \E resp \in Responses(params) :
       /\ requests' = Append(requests, params)
       /\ responses' = Append(responses, resp)
       /\ rows' = Extend(rows, resp.results)
       /\ params' = IF resp.results = << >> \/ DOMAIN LastIndexes(resp) = {}
                    THEN params
                    ELSE Update(params, LastIndexes(resp))
       /\ pc' = IF FetchDone(resp, Len(requests) + 1)
                THEN "WRITING" ELSE "FETCHING"
  /\ UNCHANGED <<env, now, runs, hist, conns, dbvars, resolved, watermark,
                 inserted, new_watermark, err, raised>>

\* requests.get times out, or r.raise_for_status() raises on a non-200.
FetchFail ==
  /\ pc = "FETCHING"
  /\ Len(requests) < max_batches
  /\ \E e \in {HTTPError, Timeout} : Raise(e)
  /\ requests' = Append(requests, params)
  /\ UNCHANGED <<env, now, runs, hist, conns, dbvars, resolved, watermark,
                 params, responses, rows, inserted, new_watermark>>

(* ------------------------ insert_raw_schedule_a ------------------------ *)
RECURSIVE Sum(_)
Sum(seq) == IF seq = << >> THEN 0 ELSE seq[1] + Sum(Tail(seq))

\* if not rows: return 0 (no connection is opened)
InsertEmpty ==
  /\ pc = "WRITING"
  /\ rows = << >>
  /\ inserted' = 0
  /\ pc' = "COMPUTING_WATERMARK"
  /\ UNCHANGED <<env, now, runs, hist, conns, dbvars, fetchvars,
                 resolved, watermark, new_watermark, err, raised>>

\* enumerate(rows) counting from 0
CommitDue_fromzero(i) == (i - 1) % commit_every = 0

\* conn.commit() is due after record i
CommitDue(i) == i % commit_every = 0

\* One iteration of the for loop: cur.execute of record i = inserted + 1,
\* inserted += 1, and conn.commit() when i % commit_every == 0.  With
\* AUTOCOMMIT on, the statement is durable as soon as it has executed.
InsertRow ==
  /\ pc = "WRITING"
  /\ rows # << >>
  /\ inserted < Len(rows)
  /\ LET i == inserted + 1
         executed == Append(pending, rows[i].id)
     IN  /\ inserted' = i
         /\ IF autocommit \/ CommitDue(i)
            THEN raw' = raw \o executed /\ pending' = << >>
            ELSE raw' = raw /\ pending' = executed
         /\ commits' = IF CommitDue(i)
                       THEN Append(commits, i - Sum(commits))
                       ELSE commits
         /\ IF inserted = 0
            THEN open_conns' = Connect(open_conns) /\ opened' = opened + 1
            ELSE UNCHANGED conns
  /\ UNCHANGED <<env, now, runs, hist, ingest_runs, fetchvars,
                 resolved, watermark, new_watermark, err, raised, pc>>

\* The loop is over: the final conn.commit(), return inserted, and the
\* finally clause closes the connection.
InsertFinish ==
  /\ pc = "WRITING"
  /\ rows # << >>
  /\ inserted = Len(rows)
  /\ raw' = raw \o pending
  /\ pending' = << >>
  /\ commits' = Append(commits, inserted - Sum(commits))
  /\ pc' = "COMPUTING_WATERMARK"
  /\ open_conns' = Finally(open_conns)
  /\ opened' = opened
  /\ UNCHANGED <<env, now, runs, hist, ingest_runs, fetchvars,
                 resolved, watermark, inserted, new_watermark, err, raised>>

\* cur.execute of record inserted + 1 raises: the finally clause closes the
\* connection, which rolls back the open transaction, and the error
\* propagates.  Before the first record, sf_conn() itself may be what
\* raises, and then there is no connection.
InsertFail ==
  /\ pc = "WRITING"
  /\ rows # << >>
  /\ inserted < Len(rows)
  /\ pending' = << >>
  /\ Raise(DatabaseError)
  /\ IF inserted = 0
     THEN \E connected \in BOOLEAN :
            IF connected
            THEN open_conns' = Scoped(open_conns) /\ opened' = opened + 1
            ELSE UNCHANGED conns
     ELSE open_conns' = Finally(open_conns) /\ opened' = opened
  /\ UNCHANGED <<env, now, runs, hist, ingest_runs, raw, commits,
                 fetchvars, resolved, watermark, inserted, new_watermark>>

(* ------------------------ compute_new_watermark ------------------------ *)
\* [r.get("load_date") for r in rows if r.get("load_date")]
LoadDates(rs) ==
  { rs[i].load_date : i \in { j \in 1..Len(rs) : rs[j].load_date.k # "none" } }

\* datetime.fromisoformat(s) inside try/except: the strings that parse
Parsed(lds) == { ld.t : ld \in { x \in lds : x.k = "iso" } }

\* Without the fallback: the sentinel when no load_date is usable
compute_new_watermark_nofallback(rs, fallback) ==
  IF Parsed(LoadDates(rs)) = {} THEN Sentinel
  ELSE Max(Parsed(LoadDates(rs)))

\* min(parsed) in place of max(parsed)
compute_new_watermark_min(rs, fallback) ==
  IF Parsed(LoadDates(rs)) = {} THEN fallback
  ELSE CHOOSE d \in Parsed(LoadDates(rs)) :
         \A e \in Parsed(LoadDates(rs)) : d <= e

compute_new_watermark(rs, fallback) ==
  IF LoadDates(rs) = {} THEN fallback
  ELSE IF Parsed(LoadDates(rs)) = {} THEN fallback
       ELSE Max(Parsed(LoadDates(rs)))

\* r.get raises AttributeError on a results element that is not an object
Computable(rs) == \A i \in 1..Len(rs) : rs[i].obj

Compute ==
  /\ pc = "COMPUTING_WATERMARK"
  /\ Computable(rows)
  /\ new_watermark' = compute_new_watermark(rows, watermark)
  /\ pc' = "LOGGING_SUCCESS"
  /\ UNCHANGED <<env, now, runs, hist, conns, dbvars, fetchvars,
                 resolved, watermark, inserted, err, raised>>

ComputeFail ==
  /\ pc = "COMPUTING_WATERMARK"
  /\ ~Computable(rows)
  /\ Raise(AttributeError)
  /\ UNCHANGED <<env, now, runs, hist, conns, dbvars, fetchvars,
                 resolved, watermark, inserted, new_watermark>>

(* ------------------------------ __main__ ------------------------------- *)
NoParams == << >>

\* The state in which a first run of an ingestor starts.
Start ==
  /\ api_key \in BOOLEAN
  /\ autocommit \in BOOLEAN
  /\ \/ remote = "dataset" /\ script = << >>
     \/ remote = "scripted" /\ script \in Scripts
  /\ max_batches \in 1..MaxBatches
  /\ commit_every \in 1..MaxCommitEvery
  /\ now = NowInit
  /\ runs = 1
  /\ pc = "START"
  /\ ingest_runs = << >>
  /\ raw = << >>
  /\ pending = << >>
  /\ commits = << >>
  /\ resolved = Sentinel
  /\ watermark = Sentinel
  /\ params = NoParams
  /\ requests = << >>
  /\ responses = << >>
  /\ rows = << >>
  /\ inserted = 0
  /\ new_watermark = Sentinel
  /\ err = NoErr
  /\ raised = NoErr
  /\ raw_start = 0
  /\ ingest_start = 0
  /\ log_calls = << >>
  /\ open_conns = 0
  /\ opened = 0

Init ==
  /\ ingestor = "schedule_a"
  /\ Start

\* Without the check of API_KEY
KeyPresent_unchecked == TRUE

\* API_KEY = os.getenv("OPENFEC_API_KEY") is set and not empty
KeyPresent == api_key

\* if not API_KEY: raise RuntimeError(...) -- the first statement of each
\* ingestor's __main__
Preflight ==
  /\ pc = "START"
  /\ IF KeyPresent
     THEN /\ pc' = IF ingestor = "schedule_a"
                   THEN "RESOLVING_WATERMARK" ELSE "PAGING"
          /\ raised' = raised
     ELSE pc' = "RAISED" /\ raised' = ConfigError
  /\ UNCHANGED <<env, now, runs, hist, conns, dbvars, fetchvars,
                 resolved, watermark, inserted, new_watermark, err>>

\* watermark == "1900-01-01": a datetime never equals a string
IsSentinel_never(w) == FALSE

\* str(watermark).startswith("1900-01-01")
IsSentinel(w) == Strftime(w) = Strftime(Sentinel)

\* datetime.now(timezone.utc) - timedelta(days=30)
Lookback == now - LookbackDays * TicksPerDay

\* watermark = get_last_watermark(), the first-run fallback, and the call of
\* fetch_schedule_a_keyset up to its first request.
Resolve ==
  /\ pc = "RESOLVING_WATERMARK"
  /\ resolved' = get_last_watermark(ingest_runs)
  /\ watermark' = IF IsSentinel(resolved') THEN Lookback ELSE resolved'
  /\ params' = StartParams(watermark')
  /\ pc' = "FETCHING"
  /\ open_conns' = Scoped(open_conns)
  /\ opened' = opened + 1
  /\ UNCHANGED <<env, now, runs, hist, dbvars, requests,
                 responses, rows, inserted, new_watermark, err, raised>>

\* get_last_watermark raises, in sf_conn() (no connection) or in
\* cur.execute (inside try); it is called outside __main__'s try block.
ResolveFail ==
  /\ pc = "RESOLVING_WATERMARK"
  /\ raised' = ResolveError
  /\ pc' = "RAISED"
  /\ \E connected \in BOOLEAN :
       IF connected
       THEN open_conns' = Scoped(open_conns) /\ opened' = opened + 1
       ELSE UNCHANGED conns
  /\ UNCHANGED <<env, now, runs, hist, dbvars, fetchvars,
                 resolved, watermark, inserted, new_watermark, err>>

\* Logging the watermark computed from the records fetched so far
FailedRow_computed(e) ==
  log_run("FAILED", compute_new_watermark(rows, watermark), 0, Truncate(e))

\* Logging the number of records executed before the error
FailedRow_inserted(e) == log_run("FAILED", watermark, inserted, Truncate(e))

\* The row of log_run("FAILED", watermark, 0, notes=str(e)[:500])
FailedRow(e) == log_run("FAILED", watermark, 0, Truncate(e))

\* Logging the watermark the fetch started from
SuccessRow_fetchwatermark == log_run("SUCCESS", watermark, inserted, SuccessNote)

\* The row of log_run("SUCCESS", new_watermark, inserted, notes=...)
SuccessRow == log_run("SUCCESS", new_watermark, inserted, SuccessNote)

\* log_run("SUCCESS", new_watermark, inserted, notes=...) returns.
LogSuccess ==
  /\ pc = "LOGGING_SUCCESS"
  /\ ingest_runs' = Append(ingest_runs, SuccessRow)
  /\ pc' = "DONE"
  /\ log_calls' = Append(log_calls, [status |-> "SUCCESS", returned |-> TRUE])
  /\ open_conns' = Scoped(open_conns)
  /\ opened' = opened + 1
  /\ UNCHANGED <<env, now, runs, raw_start, ingest_start, raw, pending, commits,
                 fetchvars, resolved, watermark, inserted, new_watermark,
                 err, raised>>

\* An error inside the try block at or after log_run("SUCCESS", ...): in
\* sf_conn() (no connection, no row), in cur.execute (no row), in
\* conn.commit() of a session whose INSERT is durable already, or in the
\* print that follows the call (the row is there).  The except clause
\* catches it.
LogSuccessFail ==
  /\ pc = "LOGGING_SUCCESS"
  /\ \E durable \in BOOLEAN, connected \in BOOLEAN :
       /\ durable => connected
       /\ ingest_runs' =
            IF durable
            THEN Append(ingest_runs, SuccessRow)
            ELSE ingest_runs
       /\ IF connected
          THEN open_conns' = Scoped(open_conns) /\ opened' = opened + 1
          ELSE UNCHANGED conns
  /\ Raise(LogError("LOGGING_SUCCESS"))
  /\ log_calls' = Append(log_calls, [status |-> "SUCCESS", returned |-> FALSE])
  /\ UNCHANGED <<env, now, runs, raw_start, ingest_start, raw, pending, commits,
                 fetchvars, resolved, watermark, inserted, new_watermark>>

\* except Exception as e: log_run("FAILED", watermark, 0, str(e)[:500]); raise
LogFailure ==
  /\ pc = "LOGGING_FAILURE"
  /\ ingest_runs' = Append(ingest_runs, FailedRow(err))
  /\ raised' = err
  /\ pc' = "RAISED"
  /\ log_calls' = Append(log_calls, [status |-> "FAILED", returned |-> TRUE])
  /\ open_conns' = Scoped(open_conns)
  /\ opened' = opened + 1
  /\ UNCHANGED <<env, now, runs, raw_start, ingest_start, raw, pending, commits,
                 fetchvars, resolved, watermark, inserted, new_watermark, err>>

\* log_run("FAILED", ...) raises inside the except clause: its error leaves
\* __main__ in place of the one caught.
LogFailureFail ==
  /\ pc = "LOGGING_FAILURE"
  /\ \E durable \in BOOLEAN, connected \in BOOLEAN :
       /\ durable => connected
       /\ ingest_runs' =
            IF durable
            THEN Append(ingest_runs, FailedRow(err))
            ELSE ingest_runs
       /\ IF connected
          THEN open_conns' = Scoped(open_conns) /\ opened' = opened + 1
          ELSE UNCHANGED conns
  /\ raised' = LogError("LOGGING_FAILURE")
  /\ pc' = "RAISED"
  /\ log_calls' = Append(log_calls, [status |-> "FAILED", returned |-> FALSE])
  /\ UNCHANGED <<env, now, runs, raw_start, ingest_start, raw, pending, commits,
                 fetchvars, resolved, watermark, inserted, new_watermark, err>>

\* The next scheduled invocation: a new process at a later time.
NewRun ==
  /\ pc \in {"DONE", "RAISED"}
  /\ runs < MaxRuns
  /\ runs' = runs + 1
  /\ now' = now + 1
  /\ pc' = "START"
  /\ raw_start' = Len(raw)
  /\ ingest_start' = Len(ingest_runs)
  /\ log_calls' = << >>
  /\ open_conns' = 0
  /\ opened' = 0
  /\ commits' = << >>
  /\ resolved' = Sentinel
  /\ watermark' = Sentinel
  /\ params' = NoParams
  /\ requests' = << >>
  /\ responses' = << >>
  /\ rows' = << >>
  /\ inserted' = 0
  /\ new_watermark' = Sentinel
  /\ err' = NoErr
  /\ raised' = NoErr
  /\ UNCHANGED <<env, ingest_runs, raw, pending>>

Next ==
  \/ Preflight
  \/ Resolve
  \/ ResolveFail
  \/ FetchPage
  \/ FetchFail
  \/ InsertEmpty
  \/ InsertRow
  \/ InsertFinish
  \/ InsertFail
  \/ Compute
  \/ ComputeFail
  \/ LogSuccess
  \/ LogSuccessFail
  \/ LogFailure
  \/ LogFailureFail
  \/ NewRun

Spec == Init /\ [][Next]_vars

(* ------------- the candidates and the committees ingestor -------------- *)
\* params = {"per_page": per_page, "page": 1}; params["page"] = page
PagedParams(page) == [per_page |-> per_page, page |-> page]

\* One iteration of fetch_candidates / fetch_committees whose request
\* returns 200; max_batches stands for max_pages.
PagedFetchPage ==
  /\ pc = "PAGING"
  /\ Len(requests) < max_batches
  /\ LET page == Len(requests) + 1
     IN  \E resp \in Responses(PagedParams(page)) :
           /\ params' = PagedParams(page)
           /\ requests' = Append(requests, PagedParams(page))
           /\ responses' = Append(responses, resp)
           /\ rows' = IF resp.results = << >>
                      THEN rows ELSE Extend(rows, resp.results)
           /\ pc' = IF resp.results = << >> \/ page = max_batches
                    THEN "INSERTING" ELSE "PAGING"
  /\ UNCHANGED <<env, now, runs, hist, conns, dbvars, resolved, watermark,
                 inserted, new_watermark, err, raised>>

\* requests.get or r.raise_for_status() raises: nothing catches it.
PagedFetchFail ==
  /\ pc = "PAGING"
  /\ Len(requests) < max_batches
  /\ params' = PagedParams(Len(requests) + 1)
  /\ requests' = Append(requests, PagedParams(Len(requests) + 1))
  /\ raised' = PagingError
  /\ pc' = "RAISED"
  /\ UNCHANGED <<env, now, runs, hist, conns, dbvars, resolved, watermark,
                 responses, rows, inserted, new_watermark, err>>

\* Rows durable when cur.execute of record j raises in insert_raw: all the
\* executed ones with AUTOCOMMIT on; otherwise those covered by a
\* conn.commit(), which only committees issues inside the loop.
DurablePrefix(j) ==
  IF autocommit THEN j - 1
  ELSE IF ingestor = "committees"
       THEN commit_every * ((j - 1) \div commit_every)
       ELSE 0

\* insert_raw(rows) returns: 0 without a connection when rows is empty,
\* else every record inserted and committed.
PagedInsertRaw ==
  /\ pc = "INSERTING"
  /\ inserted' = Len(rows)
  /\ raw' = raw \o [i \in 1..Len(rows) |-> rows[i].id]
  /\ IF rows = << >>
     THEN UNCHANGED conns
     ELSE open_conns' = Scoped(open_conns) /\ opened' = opened + 1
  /\ pc' = "DONE"
  /\ UNCHANGED <<env, now, runs, hist, ingest_runs, pending, commits,
                 fetchvars, resolved, watermark, new_watermark, err, raised>>

\* insert_raw(rows) raises, in sf_conn() or at record j.
PagedInsertRawFail ==
  /\ pc = "INSERTING"
  /\ rows # << >>
  /\ \/ UNCHANGED <<conns, raw, inserted>>
     \/ \E j \in 1..Len(rows) :
          /\ raw' = raw \o [i \in 1..DurablePrefix(j) |-> rows[i].id]
          /\ inserted' = j - 1
          /\ open_conns' = Scoped(open_conns)
          /\ opened' = opened + 1
  /\ raised' = InsertRawError
  /\ pc' = "RAISED"
  /\ UNCHANGED <<env, now, runs, hist, ingest_runs, pending, commits,
                 fetchvars, resolved, watermark, new_watermark, err>>

Ingestors == {"schedule_a", "candidates", "committees"}

\* Any of the three ingestors, the page-numbered ones against a scripted
\* fetcher.
InitIngestors ==
  /\ ingestor \in Ingestors
  /\ Start
  /\ ingestor # "schedule_a" => remote = "scripted"

NextIngestors ==
  \/ Next
  \/ PagedFetchPage
  \/ PagedFetchFail
  \/ PagedInsertRaw
  \/ PagedInsertRawFail

SpecIngestors == InitIngestors /\ [][NextIngestors]_vars

(* ------------- single calls of the accumulator and the writer ---------- *)
\* The state a run is in apart from the call under study.
Idle ==
  /\ ingestor = "schedule_a"
  /\ api_key = TRUE
  /\ script = << >>
  /\ now = NowInit
  /\ runs = 1
  /\ ingest_runs = << >>
  /\ raw = << >>
  /\ pending = << >>
  /\ commits = << >>
  /\ resolved = Sentinel
  /\ watermark = Lookback
  /\ requests = << >>
  /\ responses = << >>
  /\ inserted = 0
  /\ new_watermark = Sentinel
  /\ err = NoErr
  /\ raised = NoErr
  /\ raw_start = 0
  /\ ingest_start = 0
  /\ log_calls = << >>
  /\ open_conns = 0
  /\ opened = 0

\* fetch_schedule_a_keyset(min_load_date, per_page, max_batches) against a
\* synthetic fetcher.
InitFetch ==
  /\ Idle
  /\ autocommit = FALSE
  /\ remote = "synthetic"
  /\ max_batches \in 1..FetchBatches
  /\ commit_every = 1
  /\ pc = "FETCHING"
  /\ params = StartParams(watermark)
  /\ rows = << >>

NextFetch ==
  \/ FetchPage
  \/ FetchFail

SpecFetch == InitFetch /\ [][NextFetch]_vars

\* insert_raw_schedule_a(rows, commit_every) on 0..InsertRows records.
InsertInput(n) == [i \in 1..n |-> Rec(i, i, Iso(At(BaseDay, 0)))]

InitInsert ==
  /\ Idle
  /\ autocommit \in BOOLEAN
  /\ remote = "dataset"
  /\ max_batches = 1
  /\ commit_every \in 1..InsertCommitEvery
  /\ pc = "WRITING"
  /\ params = StartParams(watermark)
  /\ \E n \in 0..InsertRows : rows = InsertInput(n)

NextInsert ==
  \/ InsertEmpty
  \/ InsertRow
  \/ InsertFinish
  \/ InsertFail

SpecInsert == InitInsert /\ [][NextInsert]_vars

(* ------------------------------ properties ----------------------------- *)
\* States of a run in which ingest_runs is as get_last_watermark read it.
AfterResolve ==
  pc \in {"FETCHING", "WRITING", "COMPUTING_WATERMARK", "LOGGING_SUCCESS"}

TrySteps == {"FETCHING", "WRITING", "COMPUTING_WATERMARK"}

LastRun == ingest_runs[Len(ingest_runs)]

SuccessDates ==
  { ingest_runs[i].last_indexed_date :
      i \in { j \in 1..Len(ingest_runs) : ingest_runs[j].status = "SUCCESS" } }

AllSuccess == \A i \in 1..Len(ingest_runs) : ingest_runs[i].status = "SUCCESS"

\* The run appended exactly one row.
OneRowAppended == Len(ingest_runs) = ingest_start + 1

\* The watermark of __main__ is the lower bound the first request carried.
FetchedFromWatermark ==
  /\ requests # << >>
  /\ requests[1].min_load_date = Strftime(watermark)

\* The last call of log_run in this run wrote `status` and returned.
Logged(status) ==
  /\ log_calls # << >>
  /\ log_calls[Len(log_calls)] = [status |-> status, returned |-> TRUE]

ResolvedIsMaxSuccess ==
  AfterResolve =>
    IF SuccessDates = {} THEN resolved = Sentinel
    ELSE /\ resolved \in SuccessDates
         /\ \A d \in SuccessDates : d <= resolved

FailedRowAppended ==
  /\ Len(ingest_runs') = Len(ingest_runs) + 1
  /\ ingest_runs'[Len(ingest_runs')].status = "FAILED"

\* C1: the value get_last_watermark returns to a run is the maximum
\* last_indexed_date of the SUCCESS rows, or the sentinel when there is none,
\* and appending a FAILED row leaves the value it returns unchanged.
C1_EffectiveWatermark ==
  /\ []ResolvedIsMaxSuccess
  /\ [][FailedRowAppended =>
          get_last_watermark(ingest_runs') = get_last_watermark(ingest_runs)]_vars

\* A run has resolved its watermark from a log holding a SUCCESS row and a
\* FAILED row that carries a later date.
C1_Witness ==
  /\ pc = "FETCHING"
  /\ SuccessDates # {}
  /\ \E i \in 1..Len(ingest_runs) :
       /\ ingest_runs[i].status = "FAILED"
       /\ ingest_runs[i].last_indexed_date > resolved

\* C2: when every run so far ended in SUCCESS, the watermark a run resolves
\* is at least the watermark the previous run committed.
C2_MonotonicWatermark ==
  (AfterResolve /\ ingest_runs # << >> /\ AllSuccess) =>
    resolved >= LastRun.last_indexed_date

\* The third of three SUCCESS-only runs, the second having advanced the
\* watermark of the first.
C2_Witness ==
  /\ pc = "FETCHING"
  /\ Len(ingest_runs) = 2
  /\ AllSuccess
  /\ ingest_runs[1].last_indexed_date < ingest_runs[2].last_indexed_date

\* C3: a run whose fetch, raw write or watermark computation raised, and
\* whose log_run("FAILED") returned, has appended one FAILED row carrying
\* the watermark the fetch started from, rows_loaded = 0 and notes of at most
\* NotesLimit characters, and the error leaving the run is the one caught.
C3_FailureRow ==
  (pc = "RAISED" /\ err.at \in TrySteps /\ Logged("FAILED")) =>
    /\ OneRowAppended
    /\ LastRun.status = "FAILED"
    /\ LastRun.last_indexed_date = watermark
    /\ FetchedFromWatermark
    /\ LastRun.rows_loaded = 0
    /\ LastRun.notes.len <= NotesLimit
    /\ LastRun.notes = [msg |-> err.type, len |-> MinOf(err.len, NotesLimit)]
    /\ raised = err

\* The raw write failed after records with a later load_date were fetched,
\* with a message longer than the notes limit.
C3_Witness ==
  /\ pc = "RAISED"
  /\ err.at = "WRITING"
  /\ Logged("FAILED")
  /\ err.len > NotesLimit
  /\ compute_new_watermark(rows, watermark) # watermark

C5_NoAdvanceOnEmpty ==
  (pc \in {"COMPUTING_WATERMARK", "LOGGING_SUCCESS", "DONE"} /\ rows = << >>) =>
    /\ Len(raw) = raw_start
    /\ pending = << >>
    /\ commits = << >>
    /\ inserted = 0
    /\ pc # "COMPUTING_WATERMARK" =>
         /\ new_watermark = watermark
         /\ FetchedFromWatermark
    /\ pc = "DONE" =>
         /\ OneRowAppended
         /\ LastRun.status = "SUCCESS"
         /\ LastRun.last_indexed_date = watermark
         /\ LastRun.rows_loaded = 0

\* A run after the first fetched nothing and logged SUCCESS.
C5_Witness ==
  /\ pc = "DONE"
  /\ rows = << >>
  /\ requests # << >>
  /\ ingest_start >= 1
  /\ LastRun.status = "SUCCESS"

\* The watermark of the first run of a behaviour whose runs all succeed.
FirstWatermark == NowInit - LookbackDays * TicksPerDay

\* Every run so far has ended in SUCCESS, the current one not having failed.
AllRunsSucceeded ==
  /\ AllSuccess
  /\ pc \notin {"RAISED", "LOGGING_FAILURE"}
  /\ Len(ingest_runs) = IF pc = "DONE" THEN runs ELSE runs - 1

Landed == { raw[i] : i \in 1..Len(raw) }

\* The min_load_date filter of a run that starts now still admits r.
Selectable(r) ==
  r.load_date.t >= DayStart(Strftime(get_last_watermark(ingest_runs)))

\* C6 as stated: over successful runs against the unchanged data set, no
\* record loaded at or after the first run's watermark is skipped: it has
\* landed, or the committed watermark still lets a later run fetch it.  (The
\* committed watermark never decreases, so a record that is neither is never
\* fetched by any later run.)
C6_NothingSkipped ==
  (remote = "dataset" /\ ingest_runs # << >> /\ AllRunsSucceeded) =>
    \A r \in Upstream :
      r.load_date.t >= FirstWatermark => (r.id \in Landed \/ Selectable(r))

RECURSIVE ConcatResults(_)
ConcatResults(resps) ==
  IF resps = << >> THEN << >>
  ELSE resps[1].results \o ConcatResults(Tail(resps))

\* A response that ends pagination: no results, or no cursor.
Terminal(resp) ==
  \/ resp.results = << >>
  \/ ~resp.has_pagination
  \/ DOMAIN resp.last_indexes = {}

\* C7: the first response with an empty results list (whatever its cursor),
\* or with last_indexes absent or empty, is the last one: no request follows
\* it, and the call returns without error the records of every page received.
C7_CursorTermination ==
  \A k \in 1..Len(responses) :
    Terminal(responses[k]) =>
      /\ k = Len(responses)
      /\ Len(requests) = k
      /\ pc = "WRITING"
      /\ err = NoErr
      /\ raised = NoErr
      /\ rows = ConcatResults(responses)

\* Pages 1 and 2 carried cursors, page 3 carried records and an empty
\* last_indexes, below the batch ceiling: three requests, three pages returned.
C7_Witness ==
  /\ max_batches = 4
  /\ pc = "WRITING"
  /\ Len(requests) = 3
  /\ Len(responses) = 3
  /\ ~Terminal(responses[1])
  /\ ~Terminal(responses[2])
  /\ responses[3].results # << >>
  /\ responses[3].has_pagination
  /\ DOMAIN responses[3].last_indexes = {}
  /\ rows = responses[1].results \o responses[2].results \o responses[3].results

\* Every response so far carried records and a cursor.
Endless == \A k \in 1..Len(responses) : ~Terminal(responses[k])

\* C8: against a remote that always returns records and a cursor, the call
\* issues requests until exactly max_batches are made, never more, and
\* then returns without error the records of all max_batches pages.
C8_BatchCeiling ==
  /\ Len(requests) <= max_batches
  /\ (Endless /\ pc = "FETCHING") => Len(requests) < max_batches
  /\ (Endless /\ pc = "WRITING") =>
       /\ Len(requests) = max_batches
       /\ Len(responses) = max_batches
       /\ err = NoErr
       /\ raised = NoErr
       /\ rows = ConcatResults(responses)

\* The ceiling of the largest max_batches was reached with every page full.
C8_Witness ==
  /\ Endless
  /\ pc = "WRITING"
  /\ max_batches = FetchBatches
  /\ Len(requests) = FetchBatches
  /\ Len(rows) >= FetchBatches

Ceil(n, k) == (n + k - 1) \div k

\* insert_raw_schedule_a returned on a non-empty input.
Inserted == pc = "COMPUTING_WATERMARK" /\ rows # << >>

\* C9 as stated: N >= 1 records with commit_every = K are written with
\* exactly ceil(N/K) commits, each covering between 1 and K records, and N
\* is returned.
C9_CeilCommits ==
  Inserted =>
    /\ Len(commits) = Ceil(Len(rows), commit_every)
    /\ \A c \in 1..Len(commits) :
         commits[c] >= 1 /\ commits[c] <= commit_every
    /\ inserted = Len(rows)

\* C9 amended: N >= 1 records with commit_every = K are written with one
\* commit per full block of K records and one final commit, floor(N/K) + 1
\* commits in all: the final commit covers the N mod K records of the
\* remainder, none when K divides N, and the count equals ceil(N/K) exactly
\* when K does not divide N; every record is durable and N is returned.
C9_ChunkedCommit ==
  Inserted =>
    /\ Len(commits) = (Len(rows) \div commit_every) + 1
    /\ \A c \in 1..(Len(commits) - 1) : commits[c] = commit_every
    /\ commits[Len(commits)] = Len(rows) % commit_every
    /\ (Len(rows) % commit_every # 0) =>
         Len(commits) = Ceil(Len(rows), commit_every)
    /\ (Len(rows) % commit_every = 0) =>
         Len(commits) = Ceil(Len(rows), commit_every) + 1
    /\ Sum(commits) = Len(rows)
    /\ inserted = Len(rows)
    /\ Len(raw) = raw_start + Len(rows)
    /\ pending = << >>

\* Five records with commit_every = 2: commits of 2, 2 and 1 records.
C9_Witness ==
  /\ Inserted
  /\ Len(rows) = 5
  /\ commit_every = 2
  /\ commits = <<2, 2, 1>>
  /\ inserted = 5

\* C10 as stated: when the insert of record j = inserted + 1 raises, the
\* error reaches the caller and exactly K * floor((j-1)/K) rows of the call
\* are durable, those executed after the last commit being rolled back.
C10_RollbackToCheckpoint ==
  (pc = "LOGGING_FAILURE" /\ err.at = "WRITING") =>
    /\ err = DatabaseError
    /\ pending = << >>
    /\ Len(raw) - raw_start = commit_every * (inserted \div commit_every)

\* load_date values of the records that carry a timestamp
UsableDates(rs) ==
  { rs[i].load_date.t :
      i \in { j \in 1..Len(rs) : rs[j].load_date.k = "iso" } }

\* C11: a run whose fetch, raw write and watermark computation succeeded
\* and whose log_run("SUCCESS") returned has appended one SUCCESS row whose
\* last_indexed_date is the greatest load_date among the records fetched
\* (the watermark the fetch started from when no record carries a usable
\* one) and whose rows_loaded is the number of records fetched, which is the
\* number of raw rows the run has written.
C11_SuccessRow ==
  pc = "DONE" =>
    /\ OneRowAppended
    /\ LastRun.status = "SUCCESS"
    /\ LastRun.last_indexed_date =
         IF UsableDates(rows) = {} THEN watermark ELSE Max(UsableDates(rows))
    /\ FetchedFromWatermark
    /\ LastRun.rows_loaded = Len(rows)
    /\ Len(raw) - raw_start = Len(rows)
    /\ pending = << >>

\* A run that started from the watermark of an earlier SUCCESS row fetched
\* two records with different load_date values and logged the later one,
\* moving the watermark forward.
C11_Witness ==
  /\ pc = "DONE"
  /\ ingest_start > 0
  /\ resolved = watermark
  /\ Len(rows) = 2
  /\ rows[1].load_date.k = "iso"
  /\ rows[2].load_date.k = "iso"
  /\ rows[1].load_date.t < rows[2].load_date.t
  /\ LastRun.last_indexed_date = rows[2].load_date.t
  /\ LastRun.last_indexed_date > watermark
  /\ LastRun.rows_loaded = 2

\* Rows of ingest_runs appended by the current run, and raw rows it made
\* durable.
AppendedByRun == (ingest_start + 1)..Len(ingest_runs)

PersistedByRun == Len(raw) - raw_start

\* Raw rows a run leaves durable when an error at err.at ended it: none when
\* the fetch failed; when the write failed, the rows executed before the
\* failing record if the session autocommits and else the rows covered by a
\* commit; every fetched row when the failure came after the write.
PersistedAtFailure ==
  CASE err.at = "FETCHING" -> 0
    [] err.at = "WRITING" -> IF autocommit THEN inserted ELSE Sum(commits)
    [] OTHER -> Len(rows)

\* C12 as stated: the rows_loaded of every row a run appends is the number
\* of raw rows the run made durable, and a run that appended a FAILED row
\* left no raw row durable.
C12_RowsLoadedIsPersisted ==
  \A i \in AppendedByRun :
    /\ ingest_runs[i].rows_loaded = PersistedByRun
    /\ ingest_runs[i].status = "FAILED" => PersistedByRun = 0

\* C12 amended: the rows_loaded of a SUCCESS row is the number of raw rows
\* the run made durable, which is the number of records fetched; a FAILED
\* row carries rows_loaded = 0 whatever the run left durable, which is
\* PersistedAtFailure.
C12_RowsLoadedOfSuccess ==
  \A i \in AppendedByRun :
    /\ ingest_runs[i].status = "SUCCESS" =>
         /\ ingest_runs[i].rows_loaded = PersistedByRun
         /\ PersistedByRun = Len(rows)
    /\ ingest_runs[i].status = "FAILED" =>
         /\ ingest_runs[i].rows_loaded = 0
         /\ PersistedByRun = PersistedAtFailure

\* Without autocommit, the write failed past a commit checkpoint: the FAILED
\* row says 0 and the checkpointed rows are durable.
C12_Witness ==
  /\ pc = "RAISED"
  /\ ~autocommit
  /\ err.at = "WRITING"
  /\ OneRowAppended
  /\ LastRun.status = "FAILED"
  /\ LastRun.rows_loaded = 0
  /\ PersistedByRun > 0
  /\ PersistedByRun < Len(rows)

\* C13: an ingestor (schedule_a, candidates or committees) started without
\* an API key fails with the configuration error before it issues a request
\* or opens a warehouse connection, and appends nothing to ingest_runs or to
\* the raw table, however often it is run.
C13_NoKeyNoEffect ==
  ~api_key =>
    /\ pc \in {"START", "RAISED"}
    /\ pc = "RAISED" => raised = ConfigError
    /\ requests = << >>
    /\ responses = << >>
    /\ opened = 0
    /\ open_conns = 0
    /\ log_calls = << >>
    /\ ingest_runs = << >>
    /\ raw = << >>
    /\ pending = << >>

\* The second run of a page-numbered ingestor without a key has failed.
C13_Witness ==
  /\ ~api_key
  /\ ingestor = "candidates"
  /\ runs = 2
  /\ pc = "RAISED"
  /\ raised = ConfigError

\* C14: once a run has resolved its watermark, the watermark it fetches from
\* is now minus LookbackDays when get_last_watermark returned the sentinel,
\* and the value get_last_watermark returned when a SUCCESS row existed;
\* every request of the run carries the calendar day of that watermark as
\* min_load_date, which is never the day of the sentinel.
C14_SentinelNeverSent ==
  params # NoParams =>
    /\ resolved = Sentinel =>
         watermark = now - LookbackDays * TicksPerDay
    /\ resolved # Sentinel => watermark = resolved
    /\ AfterResolve /\ SuccessDates # {} =>
         /\ watermark = resolved
         /\ resolved = Max(SuccessDates)
    /\ watermark # Sentinel
    /\ \A k \in 1..Len(requests) :
         /\ requests[k].min_load_date = Strftime(watermark)
         /\ requests[k].min_load_date # Strftime(Sentinel)

\* A second run, after a first one that left only a FAILED row, got the
\* sentinel again and sent the day thirty days before its own start.
C14_Witness ==
  /\ runs = 2
  /\ ingest_runs # << >>
  /\ resolved = Sentinel
  /\ requests # << >>
  /\ requests[1].min_load_date = Strftime(now) - LookbackDays

\* C15: when a page request of a run has failed, that request is the last
\* one the run issues (no retry, no next page), the run writes no raw row,
\* the records of the pages received before included, and it leaves through
\* the except clause: log_run("FAILED") is its only log call and, when that
\* call returns, the FAILED row is the one row of the run and the error of
\* the request is re-raised.
C15_FetchFailureAborts ==
  (err.at = "FETCHING" \/ raised.at = "FETCHING") =>
    /\ pc \in {"LOGGING_FAILURE", "RAISED"}
    /\ Len(requests) = Len(responses) + 1
    /\ Len(raw) = raw_start
    /\ pending = << >>
    /\ commits = << >>
    /\ inserted = 0
    /\ pc = "LOGGING_FAILURE" => log_calls = << >>
    /\ pc = "RAISED" =>
         /\ Len(log_calls) = 1
         /\ log_calls[1].status = "FAILED"
         /\ Logged("FAILED") =>
              /\ OneRowAppended
              /\ LastRun.status = "FAILED"
              /\ raised = err

\* The second page request failed after the first page had delivered a
\* record; the run ended behind a FAILED row.
C15_Witness ==
  /\ pc = "RAISED"
  /\ err.at = "FETCHING"
  /\ Len(responses) = 1
  /\ Len(requests) = 2
  /\ rows # << >>
  /\ Len(raw) = raw_start
  /\ LastRun.status = "FAILED"

\* params with every key of last_indexes set to the value last_indexes
\* gives it, and every other key as in params
Merged(p, last_indexes) ==
  [key \in DOMAIN p \cup DOMAIN last_indexes |->
     IF key \in DOMAIN last_indexes THEN last_indexes[key] ELSE p[key]]

\* C16: the parameters of every request after the first are those of the
\* request before it with each key of the last_indexes of the response in
\* between set to the value returned, a key already present being
\* overwritten and every other key carried over unchanged.
C16_CursorMerge ==
  \A k \in 2..Len(requests) :
    requests[k] = Merged(requests[k - 1], LastIndexes(responses[k - 1]))

\* A third request replaced the last_index the second one carried and kept
\* the second one's last_contribution_receipt_date, per_page, sort and
\* min_load_date.
C16_Witness ==
  /\ Len(requests) >= 3
  /\ requests[2].last_index # requests[3].last_index
  /\ DOMAIN LastIndexes(responses[2]) = {"last_index"}
  /\ requests[3].last_contribution_receipt_date =
       requests[2].last_contribution_receipt_date
  /\ requests[3].min_load_date = requests[1].min_load_date
  /\ requests[3].per_page = requests[1].per_page

\* C17: the sequence fetch_schedule_a_keyset has accumulated, and returns,
\* is the results lists of the responses received, concatenated in request
\* order with the order inside each page kept: no record is dropped,
\* duplicated or moved.
C17_RowsAreConcatenation ==
  /\ rows = ConcatResults(responses)
  /\ Len(rows) = Sum([k \in 1..Len(responses) |-> Len(responses[k].results)])
  /\ \A k \in 1..Len(responses) :
       LET before ==
             Sum([j \in 1..(k - 1) |-> Len(responses[j].results)])
       IN  \A i \in 1..Len(responses[k].results) :
             rows[before + i] = responses[k].results[i]

\* The call returned after three pages, a two-record page between two
\* one-record pages.
C17_Witness ==
  /\ pc = "WRITING"
  /\ Len(responses) = 3
  /\ Len(responses[1].results) = 1
  /\ Len(responses[2].results) = 2
  /\ Len(responses[3].results) = 1
  /\ responses[1].results[1] # responses[2].results[1]
  /\ Len(rows) = 4

\* C18: no warehouse connection is open except while insert_raw_schedule_a
\* is between its first record and its end, and then exactly one is:
\* get_last_watermark, log_run and insert_raw_schedule_a have each closed
\* the connection they opened when they return or raise, so none is open
\* between two operations and never more than one at a time.
C18_ConnectionsScoped ==
  /\ open_conns \in {0, 1}
  /\ open_conns = 1 <=> (pc = "WRITING" /\ inserted > 0)
  /\ opened <= 2 + Len(log_calls)

\* insert_raw_schedule_a raised after it had executed a record: the three
\* connections opened so far (read, write, log) are all closed.
C18_Witness ==
  /\ pc = "RAISED"
  /\ err.at = "WRITING"
  /\ inserted > 0
  /\ opened = 3
  /\ open_conns = 0

\* C19 as stated: a run appends at most one row to ingest_runs, and never
\* both a SUCCESS row and a FAILED row.
C19_AtMostOneRow ==
  /\ Len(ingest_runs) <= ingest_start + 1
  /\ ~ \E i, j \in AppendedByRun :
         /\ ingest_runs[i].status = "SUCCESS"
         /\ ingest_runs[j].status = "FAILED"

\* last_indexed_date of the SUCCESS rows, in append order
RECURSIVE SuccessSeq(_)
SuccessSeq(tbl) ==
  IF tbl = << >> THEN << >>
  ELSE (IF tbl[1].status = "SUCCESS"
        THEN << tbl[1].last_indexed_date >> ELSE << >>)
       \o SuccessSeq(Tail(tbl))

\* C20 as stated: the last_indexed_date of the SUCCESS row a run logs is not
\* lower than the watermark the run started its fetch from, and the
\* last_indexed_date values of the SUCCESS rows do not decrease in append
\* order.
C20_NeverBelowStart ==
  /\ pc = "DONE" => LastRun.last_indexed_date >= watermark
  /\ \A i, j \in 1..Len(SuccessSeq(ingest_runs)) :
       i < j => SuccessSeq(ingest_runs)[i] <= SuccessSeq(ingest_runs)[j]

\* C20 amended: the last_indexed_date of the SUCCESS row a run logs is lower
\* than the watermark the run fetched from exactly when the run fetched
\* records with a usable load_date and every one of them was loaded before
\* that watermark; the effective watermark, the value get_last_watermark
\* computes from the log, never decreases from one state to the next.
C20_EffectiveWatermarkMonotone ==
  /\ [](pc = "DONE" =>
          (LastRun.last_indexed_date < watermark <=>
             /\ UsableDates(rows) # {}
             /\ \A d \in UsableDates(rows) : d < watermark))
  /\ [][get_last_watermark(ingest_runs') >= get_last_watermark(ingest_runs)]_vars

\* A run logged SUCCESS with a load_date of the calendar day of the
\* watermark it fetched from, earlier than that watermark.
C20_Witness ==
  /\ pc = "DONE"
  /\ LastRun.last_indexed_date < watermark
  /\ Strftime(LastRun.last_indexed_date) = Strftime(watermark)
  /\ requests[1].min_load_date = Strftime(LastRun.last_indexed_date)

====
